---- MODULE Spec2Model ----
(***************************************************************************)
(* Model of assign_uuid.py: assign_uuids_to_nodes(file_path) parses an XML *)
(* file, walks the element tree with the recursive assign_uuid, gives each *)
(* element without a 'uuid' attribute a fresh str(uuid.uuid4()), writes    *)
(* the tree back and prints one message.  Every exception raised inside    *)
(* the try block is dispatched to one of the two except clauses.           *)
(***************************************************************************)
EXTENDS Integers, Sequences, FiniteSets, TLC

\* ------------------------------------------------------------------ bounds

\* Largest number of elements of an input document.
MaxNodes == 3

\* Depth of nested assign_uuid frames the interpreter allows before it raises
\* RecursionError (CPython: sys.getrecursionlimit(), 1000 by default; scaled).
RecursionLimit == 2

\* ------------------------------------------------------------ attribute text

\* Attribute values are texts: sequences of one-character strings.
HexDigits == <<"0", "1", "2", "3", "4", "5", "6", "7",
               "8", "9", "a", "b", "c", "d", "e", "f">>

HexChar(n) == HexDigits[n + 1]

\* os.urandom(16) as 32 nibbles; the entropy source is a pool of draws.
Entropy == 1..MaxNodes

RandomNibbles(r) == [i \in 1..32 |-> (r * 7 + i * 3) % 16]

\* uuid.uuid4(): UUID(bytes=os.urandom(16), version=4) forces the version
\* nibble (13th) to 4 and the variant bits (top of the 17th nibble) to 10.
uuid4(r) ==
  [i \in 1..32 |->
     IF i = 13 THEN 4
     ELSE IF i = 17 THEN 8 + (RandomNibbles(r)[i] % 4)
     ELSE RandomNibbles(r)[i]]

\* str(UUID): lowercase hex in groups 8-4-4-4-12 joined by hyphens.
HexGroup(u, from, to) == [i \in 1..(to - from + 1) |-> HexChar(u[from + i - 1])]

\* Mutant of str: uuid4().hex, the 32 digits without hyphens.
strHex(u) == HexGroup(u, 1, 32)

str(u) ==
  HexGroup(u, 1, 8) \o <<"-">> \o HexGroup(u, 9, 12) \o <<"-">> \o
  HexGroup(u, 13, 16) \o <<"-">> \o HexGroup(u, 17, 20) \o <<"-">> \o
  HexGroup(u, 21, 32)

\* ------------------------------------------------------------------ elements

\* An element: tag, attrib (a mapping from attribute names to texts), text and
\* the ordered list of its children (indices into the tree; 1 is the root).
\* Tag, text and the 'name' attribute depend on the element alone.
Tag(i) == IF i = 1 THEN "root" ELSE IF i % 2 = 0 THEN "item" ELSE "note"

Text(i) == IF i % 2 = 1 THEN "t" ELSE ""

\* Mutant of Set: the mapping is replaced instead of extended.
SetReplacing(attrib, key, value) == [k \in {key} |-> value]

\* node.set(key, value)
Set(attrib, key, value) ==
  [k \in DOMAIN attrib \cup {key} |-> IF k = key THEN value ELSE attrib[k]]

\* Values a 'uuid' attribute already in the file may hold.
PreVals == { <<>>, <<"1", "2", "3", "4">>, str(uuid4(1)) }

Range(s) == {s[i] : i \in 1..Len(s)}

\* Child lists over the elements 2..n: no element twice.
ChildSeqs(n) ==
  {s \in UNION {[1..k -> 2..n] : k \in 0..(n - 1)} :
     \A i, j \in DOMAIN s : i # j => s[i] # s[j]}

RECURSIVE Reach(_, _, _)
Reach(ch, seen, k) ==
  IF k = 0 THEN seen
  ELSE Reach(ch, seen \cup UNION {Range(ch[i]) : i \in seen}, k - 1)

\* ch is the child relation of a tree rooted at 1: every other element is the
\* child of exactly one element, once, and is reachable from the root.
IsTree(n, ch) ==
  /\ \A c \in 2..n :
       Cardinality({p \in 1..n : c \in Range(ch[p])}) = 1
  /\ Reach(ch, {1}, n) = 1..n

Shapes(n) == {ch \in [1..n -> ChildSeqs(n)] : IsTree(n, ch)}

\* The attribute mapping of element i as read from the file: odd elements
\* carry a 'name' attribute, the elements of had a 'uuid' attribute.
InputAttrib(i, had, pv) ==
  [k \in (IF i % 2 = 1 THEN {"name"} ELSE {}) \cup
         (IF i \in had THEN {"uuid"} ELSE {}) |->
     IF k = "uuid" THEN pv ELSE <<"x">>]

MakeTree(n, ch, had, pv) ==
  [i \in 1..n |->
     [tag      |-> Tag(i),
      text     |-> Text(i),
      children |-> ch[i],
      attrib   |-> InputAttrib(i, had, pv)]]

Trees ==
  UNION {
    {MakeTree(n, ch, had, pv) :
       ch \in Shapes(n), had \in SUBSET (1..n), pv \in PreVals}
    : n \in 1..MaxNodes}

NoTree == <<>>

\* ---------------------------------------------------------------------- file

\* What the path holds: nothing, bytes that are not well-formed XML, a
\* document (declaration header and element tree), or the remains of a write
\* that failed part-way.
Declarations == {"none", "utf-8"}

MalformedTexts == {"<a><b></a>", ""}

Missing == [kind |-> "missing"]

Malformed(t) == [kind |-> "malformed", bytes |-> t]

Xml(d, t) == [kind |-> "xml", decl |-> d, tree |-> t]

Partial == [kind |-> "partial"]

Files ==
  {Missing} \cup {Malformed(t) : t \in MalformedTexts}
            \cup {Xml(d, t) : d \in Declarations, t \in Trees}

\* ----------------------------------------------------------------- exceptions

NoExc == "None"

\* The base class of each exception class that can be raised in the try block.
Base(c) ==
  CASE c = "ParseError"        -> "SyntaxError"
    [] c = "SyntaxError"       -> "Exception"
    [] c = "FileNotFoundError" -> "OSError"
    [] c = "PermissionError"   -> "OSError"
    [] c = "OSError"           -> "Exception"
    [] c = "RecursionError"    -> "RuntimeError"
    [] c = "RuntimeError"      -> "Exception"
    [] c = "Exception"         -> "BaseException"
    [] OTHER                   -> "object"

RECURSIVE IsInstance(_, _)
IsInstance(c, cls) ==
  IF c = cls THEN TRUE
  ELSE IF c \in {"object", NoExc} THEN FALSE
  ELSE IsInstance(Base(c), cls)

\* --------------------------------------------------------------------- state

VARIABLES
  file,        \* what file_path holds
  pc,          \* position in assign_uuids_to_nodes
  tree,        \* the parsed element tree (NoTree before the parse)
  callee,      \* element assign_uuid is about to be called on (0: none)
  stack,       \* the active assign_uuid frames: [node, next child index]
  exc,         \* class of the exception raised in the try block
  out,         \* messages printed by this call
  fileBefore,  \* history: the file when the call started
  visited,     \* history: elements in the order assign_uuid was entered
  setLog,      \* history: elements node.set('uuid', ...) was called on
  draws,       \* history: the draws uuid4 consumed in this call
  writes,      \* history: number of tree.write calls issued in this call
  prev         \* history: outcome of the previous call

vars == <<file, pc, tree, callee, stack, exc, out, fileBefore, visited,
          setLog, draws, writes, prev>>

NoPrev == [ok |-> FALSE]

SuccessMsg == <<"UUIDs have been successfully assigned to nodes in", "file_path">>

ParseErrorMsg(e) == <<"Error parsing XML file:", e>>

GenericMsg(e) == <<"An error occurred:", e>>

Init ==
  /\ file \in Files
  /\ pc = "call"
  /\ tree = NoTree
  /\ callee = 0
  /\ stack = <<>>
  /\ exc = NoExc
  /\ out = <<>>
  /\ fileBefore = file
  /\ visited = <<>>
  /\ setLog = <<>>
  /\ draws = <<>>
  /\ writes = 0
  /\ prev = NoPrev

\* Mutant of Raise: the write sits in a finally clause, so a failed traversal
\* still reaches it.
RaiseFinally(e) ==
  /\ exc' = e
  /\ pc' = IF pc = "traverse" THEN "write" ELSE "except"

\* An exception raised inside the try block transfers control to the except
\* clauses.
Raise(e) ==
  /\ exc' = e
  /\ pc' = "except"

\* ET.parse(file_path); tree.getroot()
ParseOk ==
  /\ pc = "call"
  /\ file.kind = "xml"
  /\ tree' = file.tree
  /\ callee' = 1
  /\ pc' = "traverse"
  /\ UNCHANGED <<file, stack, exc, out, fileBefore, visited, setLog, draws,
                 writes, prev>>

ParseFail ==
  /\ pc = "call"
  /\ file.kind # "xml"
  /\ Raise(IF file.kind = "missing" THEN "FileNotFoundError" ELSE "ParseError")
  /\ UNCHANGED <<file, tree, callee, stack, out, fileBefore, visited, setLog,
                 draws, writes, prev>>

\* Mutant of NeedsUuid: `if not node.get('uuid')`, which also fires on an
\* empty value.
NeedsUuidFalsy(attrib) == "uuid" \notin DOMAIN attrib \/ attrib["uuid"] = <<>>

\* Mutant of NeedsUuid: the test is dropped.
NeedsUuidAlways(attrib) == TRUE

\* 'uuid' not in node.attrib
NeedsUuid(attrib) == "uuid" \notin DOMAIN attrib

\* Mutant of NewUuid: one identifier is generated and reused.
NewUuidReused(r) == str(uuid4(IF draws = <<>> THEN r ELSE draws[1]))

\* str(uuid.uuid4())
NewUuid(r) == str(uuid4(r))

\* The draws uuid4 can still return.  The 122 random bits of a version-4
\* identifier are idealised as never repeating within one call.
FreshDraws == Entropy \ Range(draws)

\* assign_uuid(node), up to the for loop: the test and the set.
AssignUuid ==
  /\ pc = "traverse"
  /\ callee # 0
  /\ IF Len(stack) >= RecursionLimit
     THEN /\ Raise("RecursionError")
          /\ UNCHANGED <<tree, callee, stack, visited, setLog, draws>>
     ELSE /\ visited' = Append(visited, callee)
          /\ IF NeedsUuid(tree[callee].attrib)
             THEN \E r \in FreshDraws :
                    /\ tree' = [tree EXCEPT ![callee].attrib =
                                  Set(@, "uuid", NewUuid(r))]
                    /\ draws' = Append(draws, r)
                    /\ setLog' = Append(setLog, callee)
             ELSE UNCHANGED <<tree, setLog, draws>>
          /\ stack' = Append(stack, [node |-> callee, next |-> 1])
          /\ callee' = 0
          /\ UNCHANGED <<pc, exc>>
  /\ UNCHANGED <<file, out, fileBefore, writes, prev>>

Top == stack[Len(stack)]

\* Mutant of LoopChild: the loop runs but the recursive call is missing.
LoopChildNoCall ==
  /\ pc = "traverse"
  /\ callee = 0
  /\ stack # <<>>
  /\ Top.next <= Len(tree[Top.node].children)
  /\ stack' = [stack EXCEPT ![Len(stack)].next = @ + 1]
  /\ UNCHANGED <<file, pc, tree, callee, exc, out, fileBefore, visited, setLog,
                 draws, writes, prev>>

\* for child in node: assign_uuid(child)
LoopChild ==
  /\ pc = "traverse"
  /\ callee = 0
  /\ stack # <<>>
  /\ Top.next <= Len(tree[Top.node].children)
  /\ callee' = tree[Top.node].children[Top.next]
  /\ stack' = [stack EXCEPT ![Len(stack)].next = @ + 1]
  /\ UNCHANGED <<file, pc, tree, exc, out, fileBefore, visited, setLog, draws,
                 writes, prev>>

\* The loop is exhausted: assign_uuid returns; the outermost return reaches
\* tree.write.
Return ==
  /\ pc = "traverse"
  /\ callee = 0
  /\ stack # <<>>
  /\ Top.next > Len(tree[Top.node].children)
  /\ stack' = SubSeq(stack, 1, Len(stack) - 1)
  /\ pc' = IF Len(stack) = 1 THEN "write" ELSE "traverse"
  /\ UNCHANGED <<file, tree, callee, exc, out, fileBefore, visited, setLog,
                 draws, writes, prev>>

\* tree.write(file_path, encoding='utf-8', xml_declaration=True); print(...)
WriteOk ==
  /\ pc = "write"
  /\ writes' = writes + 1
  /\ file' = Xml("utf-8", tree)
  /\ out' = Append(out, SuccessMsg)
  /\ pc' = "done"
  /\ UNCHANGED <<tree, callee, stack, exc, fileBefore, visited, setLog, draws,
                 prev>>

\* tree.write fails: opening for writing is refused (the file is untouched) or
\* the write fails after the file was truncated.
WriteFail ==
  /\ pc = "write"
  /\ writes' = writes + 1
  /\ \/ /\ file' = file
        /\ Raise("PermissionError")
     \/ /\ file' = Partial
        /\ Raise("OSError")
  /\ UNCHANGED <<tree, callee, stack, out, fileBefore, visited, setLog, draws,
                 prev>>

\* Mutant of Except: the generic clause comes first and shadows the other.
ExceptGenericFirst ==
  /\ pc = "except"
  /\ IF IsInstance(exc, "Exception")
     THEN /\ out' = Append(out, GenericMsg(exc))
          /\ pc' = "done"
     ELSE /\ pc' = "escaped"
          /\ out' = out
  /\ UNCHANGED <<file, tree, callee, stack, exc, fileBefore, visited, setLog,
                 draws, writes, prev>>

\* Mutant of Except: only ET.ParseError is caught.
ExceptParseOnly ==
  /\ pc = "except"
  /\ IF IsInstance(exc, "ParseError")
     THEN /\ out' = Append(out, ParseErrorMsg(exc))
          /\ pc' = "done"
     ELSE /\ pc' = "escaped"
          /\ out' = out
  /\ UNCHANGED <<file, tree, callee, stack, exc, fileBefore, visited, setLog,
                 draws, writes, prev>>

\* except ET.ParseError as e: ... except Exception as e: ...
Except ==
  /\ pc = "except"
  /\ IF IsInstance(exc, "ParseError")
     THEN /\ out' = Append(out, ParseErrorMsg(exc))
          /\ pc' = "done"
     ELSE IF IsInstance(exc, "Exception")
     THEN /\ out' = Append(out, GenericMsg(exc))
          /\ pc' = "done"
     ELSE /\ pc' = "escaped"
          /\ out' = out
  /\ UNCHANGED <<file, tree, callee, stack, exc, fileBefore, visited, setLog,
                 draws, writes, prev>>

Succeeded == pc = "done" /\ exc = NoExc

\* The script is run again on the same path.
Invoke ==
  /\ pc = "done"
  /\ prev' = IF Succeeded
             THEN [ok |-> TRUE, file |-> file, generated |-> Len(draws)]
             ELSE NoPrev
  /\ pc' = "call"
  /\ tree' = NoTree
  /\ callee' = 0
  /\ stack' = <<>>
  /\ exc' = NoExc
  /\ out' = <<>>
  /\ fileBefore' = file
  /\ visited' = <<>>
  /\ setLog' = <<>>
  /\ draws' = <<>>
  /\ writes' = 0
  /\ UNCHANGED file

Next ==
  \/ ParseOk
  \/ ParseFail
  \/ AssignUuid
  \/ LoopChild
  \/ Return
  \/ WriteOk
  \/ WriteFail
  \/ Except
  \/ Invoke

Spec == Init /\ [][Next]_vars

\* ------------------------------------------------------------ properties

HasUuid(t, i) == "uuid" \in DOMAIN t[i].attrib

Elements(t) == DOMAIN t

\* The elements of t in document order, from a list of pending elements.
RECURSIVE PreOrder(_, _)
PreOrder(t, todo) ==
  IF todo = <<>> THEN <<>>
  ELSE <<Head(todo)>> \o PreOrder(t, t[Head(todo)].children \o Tail(todo))

\* The elements of s that have no 'uuid' in t, order kept.
RECURSIVE Lacking(_, _)
Lacking(t, s) ==
  IF s = <<>> THEN <<>>
  ELSE (IF HasUuid(t, Head(s)) THEN <<>> ELSE <<Head(s)>>) \o Lacking(t, Tail(s))

\* The version-4 textual format xxxxxxxx-xxxx-4xxx-yxxx-xxxxxxxxxxxx with
\* lowercase hex x and y one of 8, 9, a, b.
IsV4Text(s) ==
  /\ Len(s) = 36
  /\ \A i \in 1..36 :
       IF i \in {9, 14, 19, 24} THEN s[i] = "-"
       ELSE IF i = 15 THEN s[i] = "4"
       ELSE IF i = 20 THEN s[i] \in {"8", "9", "a", "b"}
       ELSE s[i] \in Range(HexDigits)

Parsed == tree # NoTree

WellFormedInput == fileBefore.kind = "xml"

Printed(m) == out = <<m>>

\* C1: after a successful call every element of the tree written to the file,
\* the root included, has a 'uuid' attribute.
C1_UniversalCoverage ==
  Printed(SuccessMsg) =>
    /\ file.kind = "xml"
    /\ \A i \in Elements(file.tree) : HasUuid(file.tree, i)

\* A successful call on a document with several elements of which some had a
\* 'uuid' and some had none.
C1_Witness ==
  /\ Printed(SuccessMsg)
  /\ WellFormedInput
  /\ Len(fileBefore.tree) > 1
  /\ \E i, j \in Elements(fileBefore.tree) :
       /\ i # 1
       /\ ~HasUuid(fileBefore.tree, i)
       /\ HasUuid(fileBefore.tree, j)

\* C2: an element that has a 'uuid' key before processing keeps its value,
\* whatever it is, in the tree in memory and in the file; node.set('uuid', ...)
\* is only ever called on an element whose mapping lacked the key.
C2_ExistingPreserved ==
  WellFormedInput =>
    /\ \A i \in Elements(fileBefore.tree) :
         HasUuid(fileBefore.tree, i) =>
           /\ Parsed => /\ HasUuid(tree, i)
                        /\ tree[i].attrib["uuid"] = fileBefore.tree[i].attrib["uuid"]
           /\ file.kind = "xml" =>
                /\ HasUuid(file.tree, i)
                /\ file.tree[i].attrib["uuid"] = fileBefore.tree[i].attrib["uuid"]
    /\ \A k \in 1..Len(setLog) : ~HasUuid(fileBefore.tree, setLog[k])

\* A successful call on a document where one element held the empty string or
\* "1234" as its 'uuid' and another element was given a generated one.
C2_Witness ==
  /\ Printed(SuccessMsg)
  /\ WellFormedInput
  /\ setLog # <<>>
  /\ \E i \in Elements(fileBefore.tree) :
       /\ HasUuid(fileBefore.tree, i)
       /\ fileBefore.tree[i].attrib["uuid"] = <<>>
  /\ file # fileBefore

\* C3: a call on the file produced by a successful call generates no
\* identifier and sets no attribute, reads back the tree the first call wrote,
\* and when it succeeds in turn leaves the file as the first call left it.
C3_Idempotent ==
  prev.ok =>
    /\ draws = <<>>
    /\ setLog = <<>>
    /\ Parsed => tree = prev.file.tree
    /\ Printed(SuccessMsg) => file = prev.file

\* A second successful call after a first successful call that generated
\* identifiers.
C3_Witness ==
  /\ prev.ok
  /\ prev.generated > 0
  /\ Printed(SuccessMsg)
  /\ Len(visited) > 1

\* C4: on content that is not well-formed XML the call prints the parse error
\* message and nothing else, never reaches the traversal or the write, and
\* leaves the file as it was.
C4_MalformedHarmless ==
  fileBefore.kind \in {"malformed", "partial"} =>
    /\ pc \in {"call", "except", "done"}
    /\ writes = 0
    /\ file = fileBefore
    /\ pc # "done" => out = <<>>
    /\ pc = "done" => Printed(ParseErrorMsg("ParseError"))

\* A finished call on the unclosed-tag input.
C4_Witness ==
  /\ pc = "done"
  /\ fileBefore = Malformed("<a><b></a>")

\* C5: after a successful call the file holds the same elements with the same
\* tags, texts, child lists and attribute values; the only difference is a
\* 'uuid' key added to the mappings that lacked it.
C5_StructurePreserved ==
  Printed(SuccessMsg) =>
    /\ WellFormedInput
    /\ file.kind = "xml"
    /\ Elements(file.tree) = Elements(fileBefore.tree)
    /\ \A i \in Elements(fileBefore.tree) :
         LET a == fileBefore.tree[i]
             b == file.tree[i]
         IN /\ b.tag = a.tag
            /\ b.text = a.text
            /\ b.children = a.children
            /\ DOMAIN b.attrib = DOMAIN a.attrib \cup {"uuid"}
            /\ \A k \in DOMAIN a.attrib : b.attrib[k] = a.attrib[k]

\* A successful call that added a 'uuid' to an element with another attribute
\* and to a tree whose children are not in index order.
C5_Witness ==
  /\ Printed(SuccessMsg)
  /\ WellFormedInput
  /\ fileBefore.tree[1].children = <<3, 2>>
  /\ \A i \in Elements(fileBefore.tree) : ~HasUuid(fileBefore.tree, i)
  /\ "name" \in DOMAIN file.tree[3].attrib

\* C6 as stated: after a successful call every element holds a non-empty,
\* syntactically valid version-4 identifier, and pre-existing values are
\* untouched.
C6_Original ==
  Printed(SuccessMsg) =>
    \A i \in Elements(file.tree) :
      /\ HasUuid(file.tree, i)
      /\ file.tree[i].attrib["uuid"] # <<>>
      /\ IsV4Text(file.tree[i].attrib["uuid"])
      /\ HasUuid(fileBefore.tree, i) =>
           file.tree[i].attrib["uuid"] = fileBefore.tree[i].attrib["uuid"]

\* C6 amended: after a successful call every element has a 'uuid'; where the
\* input had none it is a non-empty valid version-4 text, and where the input
\* had one it is that value, valid or not.
C6_Amended ==
  Printed(SuccessMsg) =>
    \A i \in Elements(file.tree) :
      /\ HasUuid(file.tree, i)
      /\ IF HasUuid(fileBefore.tree, i)
         THEN file.tree[i].attrib["uuid"] = fileBefore.tree[i].attrib["uuid"]
         ELSE /\ file.tree[i].attrib["uuid"] # <<>>
              /\ IsV4Text(file.tree[i].attrib["uuid"])

\* A successful call that kept "1234" on one element and generated an
\* identifier for another.
C6_Witness ==
  /\ Printed(SuccessMsg)
  /\ \E i, j \in Elements(file.tree) :
       /\ HasUuid(fileBefore.tree, i)
       /\ file.tree[i].attrib["uuid"] = <<"1", "2", "3", "4">>
       /\ ~HasUuid(fileBefore.tree, j)
       /\ IsV4Text(file.tree[j].attrib["uuid"])

\* C7: uuid4 is called once for each element given an identifier, and two
\* different elements given one in the same call hold different values, each
\* in version-4 format.
C7_GeneratedDistinct ==
  Parsed =>
    /\ Len(draws) = Len(setLog)
    /\ \A k, l \in 1..Len(setLog) :
         k # l => /\ setLog[k] # setLog[l]
                  /\ tree[setLog[k]].attrib["uuid"] # tree[setLog[l]].attrib["uuid"]
    /\ \A k \in 1..Len(setLog) : IsV4Text(tree[setLog[k]].attrib["uuid"])

\* A successful call that generated identifiers for at least two elements.
C7_Witness ==
  /\ Printed(SuccessMsg)
  /\ Len(setLog) >= 2
  /\ file.tree[setLog[1]].attrib["uuid"] # file.tree[setLog[2]].attrib["uuid"]

TraversalComplete == Parsed /\ visited = PreOrder(tree, <<1>>) /\ stack = <<>>

\* C8: no exception escapes; a call prints nothing until it ends and exactly
\* one message when it ends: the success message iff parse, traversal and
\* write all succeeded, the parse error message iff the parse failed on
\* malformed content, the generic message for every other failure; the write
\* is issued at most once.
C8_OneMessage ==
  /\ pc # "escaped"
  /\ writes <= 1
  /\ pc # "done" => out = <<>>
  /\ pc = "done" =>
       /\ Len(out) = 1
       /\ Printed(SuccessMsg) <=>
            (TraversalComplete /\ writes = 1 /\ exc = NoExc)
       /\ Printed(ParseErrorMsg("ParseError")) <=>
            (~Parsed /\ fileBefore.kind \in {"malformed", "partial"})
       /\ Printed(GenericMsg(exc)) <=>
            \/ ~Parsed /\ fileBefore.kind = "missing"
            \/ Parsed /\ ~TraversalComplete
            \/ TraversalComplete /\ writes = 1 /\ exc # NoExc

\* A call that parsed and traversed the whole tree, whose write then failed
\* with OSError, and which ended with the generic message.
C8_Witness ==
  /\ pc = "done"
  /\ TraversalComplete
  /\ exc = "OSError"
  /\ Printed(GenericMsg("OSError"))

\* C9: the write is issued at most once and only after the parse succeeded and
\* the traversal visited the whole tree; while the call has not reached the
\* write, and after a failed parse or traversal, the file is as it was; the
\* file never holds a tree in which some element lacks a 'uuid' unless it held
\* it before the call.
C9_WriteOnlyAfterSuccess ==
  /\ writes <= 1
  /\ writes = 1 => TraversalComplete
  /\ pc = "write" => TraversalComplete /\ writes = 0
  /\ (writes = 0 \/ ~TraversalComplete) => file = fileBefore
  /\ (file.kind = "xml" /\ file # fileBefore) =>
       \A i \in Elements(file.tree) : HasUuid(file.tree, i)

\* A call whose traversal failed after an element had been given an
\* identifier in memory, and which has ended.
C9_Witness ==
  /\ pc = "done"
  /\ exc = "RecursionError"
  /\ setLog # <<>>
  /\ file = fileBefore
  /\ writes = 0

\* C10 as stated: whatever the tree, once the traversal is over every element
\* has been visited exactly once in pre-order, and exactly the elements that
\* lacked 'uuid' have been set, once each.
C10_Original ==
  (Parsed /\ pc # "traverse") =>
    /\ visited = PreOrder(tree, <<1>>)
    /\ setLog = Lacking(fileBefore.tree, PreOrder(tree, <<1>>))

====
